---- MODULE Spec2Model ----
(***************************************************************************)
(* Model of the watercolor step-by-step generator (src/asdasd.py).         *)
(*                                                                         *)
(* Two programs are modelled: the Streamlit caller main(), and the script  *)
(* that create_modified_script() generates and main() runs as a            *)
(* subprocess.  The script is the eight-stage pipeline.                    *)
(*                                                                         *)
(*   Spec        main() creates a fresh temporary directory, launches the  *)
(*               script, waits (with a timeout), handles the result and    *)
(*               removes the directory.                                    *)
(*   SpecScript  the generated script is executed repeatedly with the same *)
(*               OUTPUT_DIR, which persists between the runs.              *)
(***************************************************************************)
EXTENDS Integers, Sequences, FiniteSets, TLC

\* ---------------------------------------------------------------- bounds
MaxRuns == 2
MaxParts == 2
MaxOrig == 2
MaxTextLen == 4
MaxEdited == 1

\* ------------------------------------------------------ program constants
NumStages == 8

Stages == 1..NumStages

\* ------------------------------------------------------------ file names
\* Copy-paste slip: stage 3 is given the file name of stage 2.
StepPath_Dup(i) ==
    CASE i = 1 -> "step1_light_sketch.jpg"
      [] i = 2 -> "step2_first_wash.jpg"
      [] i = 3 -> "step2_first_wash.jpg"
      [] i = 4 -> "step4_medium_tones.jpg"
      [] i = 5 -> "step5_shadows.jpg"
      [] i = 6 -> "step6_details.jpg"
      [] i = 7 -> "step7_darkest_values.jpg"
      [] OTHER -> "step8_finished_watercolor.jpg"

StepPath(i) ==
    CASE i = 1 -> "step1_light_sketch.jpg"
      [] i = 2 -> "step2_first_wash.jpg"
      [] i = 3 -> "step3_second_wash.jpg"
      [] i = 4 -> "step4_medium_tones.jpg"
      [] i = 5 -> "step5_shadows.jpg"
      [] i = 6 -> "step6_details.jpg"
      [] i = 7 -> "step7_darkest_values.jpg"
      [] OTHER -> "step8_finished_watercolor.jpg"

\* Slip: the display list names stage 3 after its title, not its file.
step_files_Typo ==
    << "step1_light_sketch.jpg", "step2_first_wash.jpg",
       "step3_building_color.jpg", "step4_medium_tones.jpg",
       "step5_shadows.jpg", "step6_details.jpg",
       "step7_darkest_values.jpg", "step8_finished_watercolor.jpg" >>

step_files ==
    << "step1_light_sketch.jpg", "step2_first_wash.jpg",
       "step3_second_wash.jpg", "step4_medium_tones.jpg",
       "step5_shadows.jpg", "step6_details.jpg",
       "step7_darkest_values.jpg", "step8_finished_watercolor.jpg" >>

\* The name used once statements embedded in a prompt have rebound
\* os.path.join (see PyLiteral).
InjectedPath == "injected.jpg"

FileNames ==
    {StepPath(i) : i \in Stages} \cup {step_files[i] : i \in DOMAIN step_files}
    \cup {InjectedPath}

\* ---------------------------------------------------------------- images
\* An image is identified by where it came from: the uploaded original
\* (n = the upload), or the n-th image part of the response to the
\* generation call of stage `step` in run `run`.
None == [kind |-> "none", run |-> 0, step |-> 0, n |-> 0]
Partial == [kind |-> "partial", run |-> 0, step |-> 0, n |-> 0]
OrigImage(r, id) == [kind |-> "orig", run |-> r, step |-> 0, n |-> id]
GenImage(r, i, k) == [kind |-> "gen", run |-> r, step |-> i, n |-> k]

NoPath == ""

\* ------------------------------------------------------------- responses
RECURSIVE PartSeqs(_)
PartSeqs(len) ==
    IF len = 0 THEN {<< >>}
    ELSE {Append(s, p) : s \in PartSeqs(len - 1), p \in {"text", "image"}}

Responses ==
    {[kind |-> "raise", parts |-> << >>], [kind |-> "empty", parts |-> << >>]}
    \cup {[kind |-> "parts", parts |-> s] : s \in UNION {PartSeqs(l) : l \in 0..MaxParts}}

NoResponse == [kind |-> "none", parts |-> << >>]

\* --------------------------------------------------------------- prompts
\* A prompt is a sequence of characters.  Four of them matter to the way the
\* script embeds a prompt in """...""": the backslash "bs", the letter "n",
\* the double quote "q", and "code", which stands for a line break, Python
\* statements rebinding os.path.join, a line break and a "#".  Any other
\* element is an ordinary character; "NL" is a line break and "code1" is
\* "code" without its first line break.
Chars == {"bs", "n", "q", "code"}

RECURSIVE TextsOfLen(_)
TextsOfLen(len) ==
    IF len = 0 THEN {<< >>}
    ELSE {Append(t, c) : t \in TextsOfLen(len - 1), c \in Chars}

Texts == UNION {TextsOfLen(l) : l \in 0..MaxTextLen}

DefaultSystemPrompt == << "system" >>

DefaultStepPrompt(i) ==
    CASE i = 1 -> << "sketch" >>
      [] i = 2 -> << "wash1" >>
      [] i = 3 -> << "wash2" >>
      [] i = 4 -> << "medium" >>
      [] i = 5 -> << "shadow" >>
      [] i = 6 -> << "detail" >>
      [] i = 7 -> << "darkest" >>
      [] OTHER -> << "finish" >>

\* The source text the f-string template produces for a prompt.
Embed(text) == << "q", "q", "q" >> \o text \o << "q", "q", "q" >>

IsTriple(s, p) ==
    p + 2 <= Len(s) /\ s[p] = "q" /\ s[p + 1] = "q" /\ s[p + 2] = "q"

\* What a backslash followed by c stands for in a string literal.
Unescape(c) ==
    CASE c = "n" -> "NL"
      [] c = "code" -> "code1"
      [] OTHER -> c

SyntaxError == [ok |-> FALSE, pos |-> 0, value |-> << >>, injected |-> FALSE]

\* Python reading the inside of a string literal of source s from position
\* j on: the position after the closing quotes and the value read so far.
RECURSIVE ScanString(_, _, _, _)
ScanString(s, j, triple, out) ==
    IF j > Len(s) THEN SyntaxError
    ELSE IF s[j] = "bs"
    THEN IF j + 1 > Len(s) \/ (s[j + 1] = "code" /\ ~triple)
         THEN SyntaxError
         ELSE ScanString(s, j + 2, triple, Append(out, Unescape(s[j + 1])))
    ELSE IF s[j] = "q"
    THEN IF ~triple
         THEN [ok |-> TRUE, pos |-> j + 1, value |-> out, injected |-> FALSE]
         ELSE IF IsTriple(s, j)
              THEN [ok |-> TRUE, pos |-> j + 3, value |-> out, injected |-> FALSE]
              ELSE ScanString(s, j + 1, triple, Append(out, "q"))
    ELSE IF s[j] = "code" /\ ~triple
    THEN SyntaxError
    ELSE ScanString(s, j + 1, triple, Append(out, s[j]))

\* Python reading the adjacent string literals of an assignment from
\* position pos on; "code" after a literal ends the assignment, runs, and
\* comments out the rest of the line.
RECURSIVE ParseLiterals(_, _, _)
ParseLiterals(s, pos, out) ==
    IF pos > Len(s)
    THEN [ok |-> TRUE, pos |-> pos, value |-> out, injected |-> FALSE]
    ELSE IF s[pos] = "code"
    THEN [ok |-> TRUE, pos |-> pos, value |-> out, injected |-> TRUE]
    ELSE IF s[pos] # "q"
    THEN SyntaxError
    ELSE LET triple == IsTriple(s, pos)
             r == ScanString(s, IF triple THEN pos + 3 ELSE pos + 1, triple, out)
         IN IF r.ok THEN ParseLiterals(s, r.pos, r.value) ELSE SyntaxError

\* The value Python gives the name a prompt is assigned to.
PyLiteral(text) == ParseLiterals(Embed(text), 1, << >>)

DefaultState ==
    [system_prompt |-> DefaultSystemPrompt,
     step_prompts |-> [i \in Stages |-> DefaultStepPrompt(i)]]

\* create_modified_script, as the interpreter reads its result.
Generated(ss) ==
    LET sys == PyLiteral(ss.system_prompt)
        step == [i \in Stages |-> PyLiteral(ss.step_prompts[i])]
        inj == {i \in Stages : step[i].injected}
    IN [ok |-> sys.ok /\ \A i \in Stages : step[i].ok,
        SYSTEM_PROMPT |-> sys.value,
        step_prompt |-> [i \in Stages |-> step[i].value],
        injected |-> IF sys.injected THEN 1
                     ELSE IF inj = {} THEN 0
                     ELSE CHOOSE i \in inj : \A j \in inj : i <= j]

NoScript ==
    [ok |-> TRUE, SYSTEM_PROMPT |-> << >>,
     step_prompt |-> [i \in Stages |-> << >>], injected |-> 0]

VARIABLES
    run,             \* number of the current run
    phase,           \* main(): "idle", "running", "reported"
    report,          \* main(): what the page shows for the current run
    dirExists,       \* OUTPUT_DIR exists
    files,           \* OUTPUT_DIR: file name -> the image saved there
    preFiles,        \* content of OUTPUT_DIR when the current run started
    imageStatus,     \* IMAGE_PATH: "ok", "missing", "undecodable"
    inputImage,      \* the image stored at IMAGE_PATH
    pc,              \* script: position
    stage,           \* script: stage being driven (0 before stage 1)
    returncode,      \* script: exit status (-1 while it runs, -9 killed)
    original_image,  \* script: original_image
    base_image,      \* script: base_image
    step_path,       \* script: step1_path .. step8_path
    step_image,      \* script: light_sketch_image .. finished_image
    response,        \* script: response of the current generate_content
    stdout,          \* script: lines printed
    calls,           \* generate_content calls issued in the current run
    session_state,   \* main(): st.session_state (the prompts)
    script,          \* the generated script, as the interpreter reads it
    temp_dir,        \* main(): the run's TemporaryDirectory (0: none)
    parked           \* the other browser session, while this one steps

vars == << run, phase, report, dirExists, files, preFiles, imageStatus,
           inputImage, pc, stage, returncode, original_image, base_image,
           step_path, step_image, response, stdout, calls,
           session_state, script, temp_dir, parked >>

promptVars == << session_state, script >>

scriptVars == << pc, stage, returncode, original_image, base_image,
                 step_path, step_image, response, stdout, calls >>

callerVars == << phase, report >>

sessionVars == << temp_dir, parked >>

envVars == << run, dirExists, files, preFiles, imageStatus, inputImage >>

NoFiles == [f \in FileNames |-> None]

NoReport == [success |-> FALSE, error |-> "none", console |-> FALSE, displayed |-> {}]

Line(i, k) == [step |-> i, kind |-> k]

\* A browser session that has not run anything yet: everything main() and
\* the script it starts hold for one session.
NewSession ==
    [run |-> 0, phase |-> "idle", report |-> NoReport, dirExists |-> FALSE,
     files |-> NoFiles, preFiles |-> NoFiles, imageStatus |-> "ok",
     inputImage |-> None, pc |-> "none", stage |-> 0, returncode |-> -1,
     original_image |-> None, base_image |-> None,
     step_path |-> [i \in Stages |-> NoPath],
     step_image |-> [i \in Stages |-> None],
     response |-> NoResponse, stdout |-> << >>, calls |-> << >>,
     session_state |-> DefaultState, script |-> NoScript, temp_dir |-> 0]

Init ==
    /\ run = NewSession.run
    /\ phase = NewSession.phase
    /\ report = NewSession.report
    /\ dirExists = NewSession.dirExists
    /\ files = NewSession.files
    /\ preFiles = NewSession.preFiles
    /\ imageStatus = NewSession.imageStatus
    /\ inputImage = NewSession.inputImage
    /\ pc = NewSession.pc
    /\ stage = NewSession.stage
    /\ returncode = NewSession.returncode
    /\ original_image = NewSession.original_image
    /\ base_image = NewSession.base_image
    /\ step_path = NewSession.step_path
    /\ step_image = NewSession.step_image
    /\ response = NewSession.response
    /\ stdout = NewSession.stdout
    /\ calls = NewSession.calls
    /\ session_state = NewSession.session_state
    /\ script = NewSession.script
    /\ temp_dir = NewSession.temp_dir
    /\ parked = NewSession

\* The script is generated from the prompts and a new interpreter process
\* is started on it.
StartScript ==
    /\ script' = Generated(session_state)
    /\ UNCHANGED session_state
    /\ pc' = "start"
    /\ stage' = 0
    /\ returncode' = -1
    /\ original_image' = None
    /\ base_image' = None
    /\ step_path' = [i \in Stages |-> NoPath]
    /\ step_image' = [i \in Stages |-> None]
    /\ response' = NoResponse
    /\ stdout' = << >>
    /\ calls' = << >>

\* ------------------------------------------------------------ the script

\* The interpreter compiles the script; a SyntaxError ends it at once.
LoadScript ==
    /\ pc = "start"
    /\ IF script.ok
       THEN pc' = "setup" /\ UNCHANGED returncode
       ELSE pc' = "exited" /\ returncode' = 1
    /\ UNCHANGED << envVars, stage, original_image, base_image, step_path,
                    step_image, response, stdout, calls, callerVars, promptVars, sessionVars >>

\* os.makedirs(OUTPUT_DIR) unless it exists; an OSError is not caught.
Setup ==
    /\ pc = "setup"
    /\ IF dirExists
       THEN /\ pc' = "load"
            /\ UNCHANGED << dirExists, returncode, stdout >>
       ELSE \E created \in BOOLEAN :
            IF created
            THEN /\ dirExists' = TRUE
                 /\ stdout' = Append(stdout, Line(0, "created"))
                 /\ pc' = "load"
                 /\ UNCHANGED returncode
            ELSE /\ pc' = "exited"
                 /\ returncode' = 1
                 /\ UNCHANGED << dirExists, stdout >>
    /\ UNCHANGED << run, files, preFiles, imageStatus, inputImage, stage,
                    original_image, base_image, step_path, step_image,
                    response, calls, callerVars, promptVars, sessionVars >>

\* original_image = Image.open(IMAGE_PATH); base_image = original_image.
LoadOriginal ==
    /\ pc = "load"
    /\ CASE imageStatus = "ok" ->
              /\ original_image' = inputImage
              /\ base_image' = inputImage
              /\ stdout' = Append(stdout, Line(0, "loaded"))
              /\ stage' = 1
              /\ pc' = "call"
              /\ UNCHANGED returncode
         [] imageStatus = "missing" ->
              /\ stdout' = Append(stdout, Line(0, "not_found"))
              /\ pc' = "exited"
              /\ returncode' = 0
              /\ UNCHANGED << original_image, base_image, stage >>
         [] OTHER ->
              /\ pc' = "exited"
              /\ returncode' = 1
              /\ UNCHANGED << original_image, base_image, stage, stdout >>
    /\ UNCHANGED << envVars, step_path, step_image, response, calls, callerVars, promptVars, sessionVars >>

\* Copy-paste slip: every later stage is handed the sketch of stage 1.
Refs_CopyPaste(i) ==
    IF i = 1 THEN << base_image >> ELSE << base_image, step_image[1] >>

\* The images argument of the call of stage i.
Refs(i) ==
    IF i = 1 THEN << base_image >> ELSE << base_image, step_image[i - 1] >>

\* complete_prompt of the call of stage i.
CompletePrompt(i) ==
    script.SYSTEM_PROMPT \o << "NL", "NL" >> \o script.step_prompt[i]

\* stepN_path = os.path.join(OUTPUT_DIR, "stepN_....jpg"), as evaluated when
\* stage i is reached.
OutputPath(i) ==
    IF script.injected # 0 /\ script.injected <= i
    THEN InjectedPath
    ELSE StepPath(i)

\* call_gemini_with_context up to the generate_content request.
CallGenerate ==
    /\ pc = "call"
    /\ stdout' = Append(stdout, Line(stage, "generating"))
    /\ calls' = Append(calls, [step |-> stage, images |-> Refs(stage),
                               prompt |-> CompletePrompt(stage)])
    /\ response' = NoResponse
    /\ pc' = "awaiting"
    /\ UNCHANGED << envVars, stage, returncode, original_image, base_image,
                    step_path, step_image, callerVars, promptVars, sessionVars >>

\* generate_content returns a response or raises.
Respond ==
    /\ pc = "awaiting"
    /\ \E r \in Responses : response' = r
    /\ pc' = "parts"
    /\ UNCHANGED << envVars, stage, returncode, original_image, base_image,
                    step_path, step_image, stdout, calls, callerVars, promptVars, sessionVars >>

ImageParts(r) == {k \in DOMAIN r.parts : r.parts[k] = "image"}

\* Slip: the loop does not return at the first image, the last one wins.
FirstImagePart_Last(r) == CHOOSE k \in ImageParts(r) : \A j \in ImageParts(r) : k >= j

FirstImagePart(r) == CHOOSE k \in ImageParts(r) : \A j \in ImageParts(r) : k <= j

\* The image carried by part k of the response of this stage.
PartImage(r, k) ==
    GenImage(run, stage, Cardinality({j \in ImageParts(r) : j <= k}))

\* Slip: the failure is returned without being printed.
StageFailed_Silent(kind) ==
    /\ stdout' = stdout
    /\ step_path' = [step_path EXCEPT ![stage] = NoPath]
    /\ step_image' = [step_image EXCEPT ![stage] = None]

\* return None, None
StageFailed(kind) ==
    /\ stdout' = Append(stdout, Line(stage, kind))
    /\ step_path' = [step_path EXCEPT ![stage] = NoPath]
    /\ step_image' = [step_image EXCEPT ![stage] = None]

\* Slip: an artifact that already exists is not written again.
StageSaved_KeepExisting(img) ==
    /\ files' = IF files[OutputPath(stage)] = None
                THEN [files EXCEPT ![OutputPath(stage)] = img]
                ELSE files
    /\ stdout' = Append(stdout, Line(stage, "saved"))
    /\ step_path' = [step_path EXCEPT ![stage] = OutputPath(stage)]
    /\ step_image' = [step_image EXCEPT ![stage] = img]

\* return output_path, generated_image
StageSaved(img) ==
    /\ files' = [files EXCEPT ![OutputPath(stage)] = img]
    /\ stdout' = Append(stdout, Line(stage, "saved"))
    /\ step_path' = [step_path EXCEPT ![stage] = OutputPath(stage)]
    /\ step_image' = [step_image EXCEPT ![stage] = img]

\* Slip: the save error is swallowed and the image is returned anyway.
SaveFailed_Swallowed ==
    /\ \E left \in {"untouched", "partial"} :
          files' = IF left = "partial"
                   THEN [files EXCEPT ![OutputPath(stage)] = Partial]
                   ELSE files
    /\ stdout' = Append(stdout, Line(stage, "error"))
    /\ step_path' = [step_path EXCEPT ![stage] = OutputPath(stage)]
    /\ step_image' = [step_image EXCEPT ![stage] =
                         PartImage(response, FirstImagePart(response))]

\* What a failed Image.save leaves at output_path: the error came before
\* the file was opened for writing, or after.
SaveFailed ==
    /\ \E left \in {"untouched", "partial"} :
          files' = IF left = "partial"
                   THEN [files EXCEPT ![OutputPath(stage)] = Partial]
                   ELSE files
    /\ StageFailed("error")

\* Slip: no try/except, an error raised by generate_content ends the script.
HandleResponse_Uncaught ==
    /\ pc = "parts"
    /\ IF response.kind = "raise"
       THEN /\ pc' = "exited"
            /\ returncode' = 1
            /\ UNCHANGED << files, stdout, step_path, step_image >>
       ELSE /\ pc' = "check"
            /\ UNCHANGED returncode
            /\ IF response.kind = "parts" /\ ImageParts(response) # {}
               THEN \E outcome \in {"saved", "decode_failed", "save_failed"} :
                      CASE outcome = "saved" ->
                             StageSaved(PartImage(response, FirstImagePart(response)))
                        [] outcome = "decode_failed" ->
                             StageFailed("error") /\ UNCHANGED files
                        [] OTHER -> SaveFailed
               ELSE StageFailed("no_image") /\ UNCHANGED files
    /\ UNCHANGED << run, dirExists, preFiles, imageStatus, inputImage, stage,
                    original_image, base_image, response, calls, callerVars, promptVars, sessionVars >>

\* The rest of call_gemini_with_context: the parts loop and the handler.
HandleResponse ==
    /\ pc = "parts"
    /\ CASE response.kind = "raise" ->
              StageFailed("error") /\ UNCHANGED files
         [] response.kind = "parts" /\ ImageParts(response) # {} ->
              \E outcome \in {"saved", "decode_failed", "save_failed"} :
                 CASE outcome = "saved" ->
                        StageSaved(PartImage(response, FirstImagePart(response)))
                   [] outcome = "decode_failed" ->
                        StageFailed("error") /\ UNCHANGED files
                   [] OTHER -> SaveFailed
         [] OTHER ->
              StageFailed("no_image") /\ UNCHANGED files
    /\ pc' = "check"
    /\ UNCHANGED << run, dirExists, preFiles, imageStatus, inputImage, stage,
                    returncode, original_image, base_image, response, calls,
                    callerVars, promptVars, sessionVars >>

\* Slip: the check after a stage is missing, the next stage runs anyway.
CheckStage_NoExit ==
    /\ pc = "check"
    /\ IF stage < NumStages
       THEN /\ stage' = stage + 1
            /\ pc' = "call"
            /\ UNCHANGED << stdout, returncode >>
       ELSE /\ stdout' = Append(stdout, Line(0, "completed"))
            /\ pc' = "exited"
            /\ returncode' = 0
            /\ UNCHANGED stage
    /\ UNCHANGED << envVars, original_image, base_image, step_path,
                    step_image, response, calls, callerVars, promptVars, sessionVars >>

\* Slip: a failed stage is tried a second time.
CheckStage_Retry ==
    /\ pc = "check"
    /\ IF step_path[stage] = NoPath \/ step_image[stage] = None
       THEN IF Cardinality({n \in DOMAIN calls : calls[n].step = stage}) < 2
            THEN /\ pc' = "call"
                 /\ UNCHANGED << stdout, returncode, stage >>
            ELSE /\ stdout' = Append(stdout, Line(stage, "exiting"))
                 /\ pc' = "exited"
                 /\ returncode' = 0
                 /\ UNCHANGED stage
       ELSE IF stage < NumStages
            THEN /\ stage' = stage + 1
                 /\ pc' = "call"
                 /\ UNCHANGED << stdout, returncode >>
            ELSE /\ stdout' = Append(stdout, Line(0, "completed"))
                 /\ pc' = "exited"
                 /\ returncode' = 0
                 /\ UNCHANGED stage
    /\ UNCHANGED << envVars, original_image, base_image, step_path,
                    step_image, response, calls, callerVars, promptVars, sessionVars >>

\* Slip: the latest stage image becomes the base image of the next stage.
CheckStage_Rebase ==
    /\ pc = "check"
    /\ IF step_path[stage] = NoPath \/ step_image[stage] = None
       THEN /\ stdout' = Append(stdout, Line(stage, "exiting"))
            /\ pc' = "exited"
            /\ returncode' = 0
            /\ UNCHANGED << stage, base_image >>
       ELSE IF stage < NumStages
            THEN /\ stage' = stage + 1
                 /\ base_image' = step_image[stage]
                 /\ pc' = "call"
                 /\ UNCHANGED << stdout, returncode >>
            ELSE /\ stdout' = Append(stdout, Line(0, "completed"))
                 /\ pc' = "exited"
                 /\ returncode' = 0
                 /\ UNCHANGED << stage, base_image >>
    /\ UNCHANGED << envVars, original_image, step_path,
                    step_image, response, calls, callerVars, promptVars, sessionVars >>

\* if not stepN_path or not <image>: exit(); else go on to the next stage.
CheckStage ==
    /\ pc = "check"
    /\ IF step_path[stage] = NoPath \/ step_image[stage] = None
       THEN /\ stdout' = Append(stdout, Line(stage, "exiting"))
            /\ pc' = "exited"
            /\ returncode' = 0
            /\ UNCHANGED stage
       ELSE IF stage < NumStages
            THEN /\ stage' = stage + 1
                 /\ pc' = "call"
                 /\ UNCHANGED << stdout, returncode >>
            ELSE /\ stdout' = Append(stdout, Line(0, "completed"))
                 /\ pc' = "exited"
                 /\ returncode' = 0
                 /\ UNCHANGED stage
    /\ UNCHANGED << envVars, original_image, base_image, step_path,
                    step_image, response, calls, callerVars, promptVars, sessionVars >>

\* ---------------------------------------------------------------- main()

\* The button: TemporaryDirectory, input_image.jpg, the script, subprocess.
\* The runs are numbered in the order they are started, over both sessions.
LastRun == IF parked.run > run THEN parked.run ELSE run

\* tempfile.TemporaryDirectory(): a directory that did not exist before.
mkdtemp_Fixed(existing) == 1

mkdtemp(existing) == CHOOSE d \in 1..(Cardinality(existing) + 1) : d \notin existing

Click ==
    /\ phase = "idle"
    /\ LastRun < MaxRuns
    /\ run' = LastRun + 1
    /\ temp_dir' = mkdtemp({parked.temp_dir} \ {0})
    /\ UNCHANGED parked
    /\ \E id \in 1..MaxOrig : inputImage' = OrigImage(LastRun + 1, id)
    /\ \E st \in {"ok", "undecodable"} : imageStatus' = st
    /\ dirExists' = FALSE
    /\ files' = NoFiles
    /\ preFiles' = NoFiles
    /\ StartScript
    /\ phase' = "running"
    /\ report' = NoReport

\* subprocess.run raises TimeoutExpired after killing the child.
Timeout ==
    /\ phase = "running"
    /\ pc # "exited"
    /\ pc' = "killed"
    /\ returncode' = -9
    /\ report' = [NoReport EXCEPT !.error = "timeout"]
    /\ phase' = "reported"
    /\ UNCHANGED << envVars, stage, original_image, base_image, step_path,
                    step_image, response, stdout, calls, promptVars,
                    sessionVars >>

\* Positions of step_files whose file exists.
Existing == {i \in DOMAIN step_files : files[step_files[i]] # None}

\* Positions of step_files whose file exists but is not a readable image.
Unreadable == {i \in Existing : files[step_files[i]] = Partial}

\* Positions shown: the loop stops at the first Image.open that raises.
Shown == {i \in Existing : \A j \in Unreadable : i < j}

\* if result.returncode == 0: ... else: ...
HandleResult ==
    /\ phase = "running"
    /\ pc = "exited"
    /\ report' =
          IF returncode = 0
          THEN [success |-> TRUE,
                error |-> IF Unreadable # {} THEN "exception" ELSE "none",
                console |-> Unreadable = {},
                displayed |-> {step_files[i] : i \in Shown}]
          ELSE [success |-> FALSE, error |-> "failed", console |-> TRUE,
                displayed |-> {}]
    /\ phase' = "reported"
    /\ UNCHANGED << envVars, scriptVars, promptVars, sessionVars >>

\* Leaving the with block removes the temporary directory.
Cleanup ==
    /\ phase = "reported"
    /\ files' = NoFiles
    /\ dirExists' = FALSE
    /\ phase' = "idle"
    /\ temp_dir' = 0
    /\ UNCHANGED << run, preFiles, imageStatus, inputImage, report, scriptVars,
                    promptVars, parked >>

\* The prompts of st.session_state that differ from the initial ones.
Edited(ss) ==
    {i \in Stages : ss.step_prompts[i] # DefaultStepPrompt(i)}
    \cup (IF ss.system_prompt # DefaultSystemPrompt THEN {0} ELSE {})

\* The system prompt text area.
EditSystemPrompt ==
    /\ phase = "idle"
    /\ run = 0
    /\ \E t \in Texts :
          session_state' = [session_state EXCEPT !.system_prompt = t]
    /\ Cardinality(Edited(session_state')) <= MaxEdited
    /\ UNCHANGED << envVars, scriptVars, callerVars, script, sessionVars >>

\* The text area of one step prompt.
EditStepPrompt ==
    /\ phase = "idle"
    /\ run = 0
    /\ \E i \in Stages, t \in Texts :
          session_state' = [session_state EXCEPT !.step_prompts[i] = t]
    /\ Cardinality(Edited(session_state')) <= MaxEdited
    /\ UNCHANGED << envVars, scriptVars, callerVars, script, sessionVars >>

\* ------------------------------------------- the script run on its own

\* python watercolor_script.py, with whatever OUTPUT_DIR already holds.
RunScript ==
    /\ pc \in {"none", "exited"}
    /\ run < MaxRuns
    /\ run' = run + 1
    /\ \E id \in 1..MaxOrig : inputImage' = OrigImage(run + 1, id)
    /\ \E st \in {"ok", "missing", "undecodable"} : imageStatus' = st
    /\ preFiles' = files
    /\ StartScript
    /\ UNCHANGED << dirExists, files, callerVars, sessionVars >>

\* ------------------------------------------------- two browser sessions

\* The session that is stepping, as it is parked when the other one steps.
ThisSession ==
    [run |-> run, phase |-> phase, report |-> report, dirExists |-> dirExists,
     files |-> files, preFiles |-> preFiles, imageStatus |-> imageStatus,
     inputImage |-> inputImage, pc |-> pc, stage |-> stage,
     returncode |-> returncode, original_image |-> original_image,
     base_image |-> base_image, step_path |-> step_path,
     step_image |-> step_image, response |-> response, stdout |-> stdout,
     calls |-> calls, session_state |-> session_state, script |-> script,
     temp_dir |-> temp_dir]

\* Both sessions name the same directory of the one file system.
SameDir == temp_dir # 0 /\ parked.temp_dir = temp_dir

\* What the directory of the parked session holds.
ParkedFiles == IF SameDir THEN files ELSE parked.files

ParkedDirExists == IF SameDir THEN dirExists ELSE parked.dirExists

\* The server and the operating system go on with the other session: each
\* session has its own st.session_state, its own main() and its own
\* interpreter process, and finds in its directory what is there now.
Switch ==
    /\ parked' = ThisSession
    /\ run' = parked.run
    /\ phase' = parked.phase
    /\ report' = parked.report
    /\ dirExists' = ParkedDirExists
    /\ files' = ParkedFiles
    /\ preFiles' = parked.preFiles
    /\ imageStatus' = parked.imageStatus
    /\ inputImage' = parked.inputImage
    /\ pc' = parked.pc
    /\ stage' = parked.stage
    /\ returncode' = parked.returncode
    /\ original_image' = parked.original_image
    /\ base_image' = parked.base_image
    /\ step_path' = parked.step_path
    /\ step_image' = parked.step_image
    /\ response' = parked.response
    /\ stdout' = parked.stdout
    /\ calls' = parked.calls
    /\ session_state' = parked.session_state
    /\ script' = parked.script
    /\ temp_dir' = parked.temp_dir

\* -------------------------------------------------------- specifications
Next ==
    \/ Click
    \/ LoadScript
    \/ Setup
    \/ LoadOriginal
    \/ CallGenerate
    \/ Respond
    \/ HandleResponse
    \/ CheckStage
    \/ Timeout
    \/ HandleResult
    \/ Cleanup

Spec == Init /\ [][Next]_vars

NextScript ==
    \/ RunScript
    \/ LoadScript
    \/ Setup
    \/ LoadOriginal
    \/ CallGenerate
    \/ Respond
    \/ HandleResponse
    \/ CheckStage

SpecScript == Init /\ [][NextScript]_vars

\* main() with prompts edited before the button is pressed.
NextPrompts ==
    \/ EditSystemPrompt
    \/ EditStepPrompt
    \/ Click
    \/ LoadScript
    \/ Setup
    \/ LoadOriginal
    \/ CallGenerate
    \/ Respond
    \/ HandleResponse
    \/ CheckStage
    \/ HandleResult

SpecPrompts == Init /\ [][NextPrompts]_vars

\* Two sessions of the page, each pressing the button once, their steps
\* interleaved in any order up to the display of the result.
NextPair ==
    \/ Switch
    \/ Click
    \/ LoadScript
    \/ Setup
    \/ LoadOriginal
    \/ CallGenerate
    \/ Respond
    \/ HandleResponse
    \/ CheckStage
    \/ HandleResult

SpecPair == Init /\ [][NextPair]_vars

\* The script run to its end: the interpreter keeps executing, and every
\* generate_content call returns.
SpecScriptFair ==
    /\ SpecScript
    /\ WF_vars(Setup)
    /\ WF_vars(LoadOriginal)
    /\ WF_vars(CallGenerate)
    /\ WF_vars(Respond)
    /\ WF_vars(HandleResponse)
    /\ WF_vars(CheckStage)

\* ------------------------------------------------------------ properties

\* The log of stage outcomes is what the script prints about them.
ProducedStages == {stdout[n].step : n \in {m \in DOMAIN stdout : stdout[m].kind = "saved"}}

FailedStages ==
    {stdout[n].step : n \in {m \in DOMAIN stdout : stdout[m].kind \in {"no_image", "error"}}}

\* The stage whose generate_content call was issued last.
RespStage == IF calls = << >> THEN 0 ELSE calls[Len(calls)].step

NoImagePayload(r) ==
    \/ r.kind \in {"raise", "empty"}
    \/ r.kind = "parts" /\ ImageParts(r) = {}

HasImagePayload(r) == r.kind = "parts" /\ ImageParts(r) # {}

\* C1: when stage k is recorded as Failed, no generation call has been
\* issued for a stage after k and nothing was printed about a stage after k.
C1_FailFast ==
    \A k \in FailedStages :
        /\ \A n \in DOMAIN calls : calls[n].step <= k
        /\ \A n \in DOMAIN stdout : stdout[n].step <= k

C1_Witness == pc = "exited" /\ 3 \in FailedStages /\ Len(calls) = 3

\* C2: the call of stage 1 gets exactly [original image]; the call of a
\* stage i >= 2 gets exactly [original image, the image stage i-1 of the
\* same run produced and persisted].
C2_ContextThreading ==
    \A n \in DOMAIN calls :
        LET c == calls[n]
            prev == StepPath(c.step - 1)
        IN IF c.step = 1
           THEN c.images = << inputImage >>
           ELSE /\ Len(c.images) = 2
                /\ c.images[1] = inputImage
                /\ c.images[2].kind = "gen"
                /\ c.images[2].run = run
                /\ c.images[2].step = c.step - 1
                /\ (c.step - 1) \in ProducedStages
                /\ (c.step - 1) \notin FailedStages
                /\ dirExists => files[prev] = c.images[2]

C2_Witness == pc = "awaiting" /\ stage = NumStages /\ Len(calls[NumStages].images) = 2

\* C3: main() reports success exactly when all eight stages were recorded
\* as Produced, in stage order.
C3_CompletionCriterion ==
    phase = "reported" =>
        (report.success <=>
            /\ ProducedStages = Stages
            /\ FailedStages = {})

\* C4: after a run into an empty OUTPUT_DIR the files present are exactly
\* those of the stages recorded as Produced.
C4_ArtifactsMatchLog ==
    (pc = "exited" /\ dirExists /\ preFiles = NoFiles) =>
        {f \in FileNames : files[f] # None} = {StepPath(i) : i \in ProducedStages}

\* C5: whatever OUTPUT_DIR held before the run, when the run ends after a
\* failure of stage k no file of a stage after k exists.
C5_NoArtifactBeyondFailure ==
    pc = "exited" =>
        \A k \in FailedStages :
            \A j \in Stages : j > k => files[StepPath(j)] = None

\* C6: a response without image payload, or an error raised by the call,
\* makes the stage Failed, writes nothing under the stage's file name, ends
\* in no uncaught error, and the run halts at that stage.
C6_NoImageFails ==
    NoImagePayload(response) =>
        /\ stage = RespStage
        /\ pc \in {"parts", "check", "exited", "killed"}
        /\ returncode # 1
        /\ files[StepPath(stage)] = preFiles[StepPath(stage)] \/ ~dirExists
        /\ pc \in {"check", "exited"} =>
              /\ stage \in FailedStages
              /\ stage \notin ProducedStages
              /\ step_image[stage] = None

C6_Witness ==
    /\ pc = "exited"
    /\ stage = 2
    /\ response = [kind |-> "parts", parts |-> << "text" >>]

\* C7: when the response carried an image and the stage is nevertheless
\* recorded as Failed (decoding or saving failed), the run halts at that
\* stage and the image is never handed to a later stage.
C7_PersistenceFailureHalts ==
    (HasImagePayload(response) /\ RespStage \in FailedStages) =>
        /\ stage = RespStage
        /\ pc \in {"check", "exited", "killed"}
        /\ stage \notin ProducedStages
        /\ step_image[stage] = None
        /\ step_path[stage] = NoPath
        /\ \A n \in DOMAIN calls : \A m \in DOMAIN calls[n].images :
              ~(calls[n].images[m].kind = "gen" /\ calls[n].images[m].step = stage)

C7_Witness ==
    /\ pc = "exited"
    /\ stage = 2
    /\ HasImagePayload(response)
    /\ 2 \in FailedStages
    /\ files[StepPath(2)] = Partial

\* C8: when the original image is missing or undecodable, or OUTPUT_DIR
\* cannot be created, the script ends with an error status and without a
\* stage outcome, a generation call or a file written.
C8_InvalidInputReported ==
    (pc = "exited" /\ (imageStatus # "ok" \/ ~dirExists)) =>
        /\ returncode # 0
        /\ calls = << >>
        /\ ProducedStages \cup FailedStages = {}
        /\ files = preFiles

\* C9: when a run ends without all eight stages Produced, the page shows
\* the script's output (which names the stage and the reason) and every
\* artifact of the stages Produced.
C9_ReportOnIncomplete ==
    (phase = "reported" /\ ProducedStages # Stages) =>
        /\ report.console
        /\ report.displayed = {StepPath(i) : i \in ProducedStages}

\* C10: the n-th generation call of a run is the call of stage n (one call
\* per attempted stage, none repeated), every stage something was printed
\* about has its call, and the stage index of a run never decreases.
C10_OneCallPerStage ==
    /\ [](/\ \A n \in DOMAIN calls : calls[n].step = n
          /\ \A n \in DOMAIN stdout : stdout[n].step <= Len(calls)
          /\ Len(calls) <= NumStages)
    /\ [][run' = run => stage' >= stage]_vars

C10_Witness == pc = "exited" /\ ProducedStages = Stages /\ Len(calls) = NumStages

\* The lines of stdout that record a stage outcome.
IsOutcome(l) == l.kind \in {"saved", "no_image", "error"}

Log == SelectSeq(stdout, IsOutcome)

C12_IdempotentOverwrite ==
    (pc = "exited" /\ run >= 2) =>
        \A i \in ProducedStages :
            /\ files[StepPath(i)] = step_image[i]
            /\ files[StepPath(i)].kind = "gen"
            /\ files[StepPath(i)].run = run
            /\ files[StepPath(i)].step = i

C12_Witness ==
    /\ pc = "exited"
    /\ run = 2
    /\ 2 \in ProducedStages
    /\ preFiles[StepPath(2)].kind = "gen"
    /\ preFiles[StepPath(2)].run = 1

\* C13: from the load of the original image to the end of the run, the
\* original image of the run context is the image the run was started with,
\* and no step of the run changes it.
C13_OriginalUnchanged ==
    /\ [](stage >= 1 =>
             /\ original_image = inputImage
             /\ base_image = inputImage
             /\ inputImage.kind = "orig"
             /\ \A n \in DOMAIN calls : calls[n].images[1] = inputImage)
    /\ [][(stage >= 1 /\ run' = run) =>
             /\ original_image' = original_image
             /\ base_image' = base_image
             /\ inputImage' = inputImage]_vars

C13_Witness ==
    /\ pc = "exited"
    /\ stage = 5
    /\ ProducedStages = 1..4
    /\ base_image = inputImage

\* C15: when the timeout expires while a stage is in flight, the page names
\* that stage (it shows the script's output) as the one that timed out.
C15_TimeoutNamesStage ==
    (phase = "reported" /\ report.error = "timeout" /\ pc = "killed" /\ stage >= 1) =>
        report.console

\* C17: the file names main() looks up are, position by position, the file
\* names the script writes, so what the page shows after a run is exactly
\* the artifacts of the stages Produced, each under its own position.
C17_NamingAgreement ==
    /\ Len(step_files) = NumStages
    /\ \A i \in Stages : step_files[i] = StepPath(i)
    /\ (phase = "reported" /\ report.success) =>
          /\ report.displayed = {StepPath(i) : i \in ProducedStages}
          /\ \A i \in Shown : files[step_files[i]] = step_image[i]

C17_Witness ==
    /\ phase = "reported"
    /\ report.success
    /\ Cardinality(report.displayed) = NumStages

\* The script printed its completion message.
Completed == \E n \in DOMAIN stdout : stdout[n].kind = "completed"

\* C19: a run that started stage 1 reaches the end, either complete or
\* aborted at the stage that failed, after at most eight generation calls;
\* the stage index only moves from a Produced stage to the next one, the
\* run is complete only with stage 8 Produced, and after the end no call is
\* issued and no file is written.
C19_Terminates ==
    /\ (pc = "call" /\ stage = 1) ~>
          (pc = "exited" /\ (Completed \/ FailedStages = {stage}))
    /\ [](/\ Len(calls) <= NumStages
          /\ Completed => (ProducedStages = Stages /\ FailedStages = {})
          /\ pc = "call" => \A j \in 1..(stage - 1) : j \in ProducedStages)
    /\ [][run' = run =>
             /\ stage' # stage => stage' = stage + 1
             /\ pc = "exited" => (pc' = "exited" /\ calls' = calls /\ files' = files)]_vars

C19_Witness == pc = "exited" /\ Completed /\ run = 1 /\ Len(calls) = NumStages

\* C20: the eight file names are pairwise distinct, and while a run is in
\* progress no step changes the file of a stage already Produced.
C20_ArtifactsStay ==
    /\ [](\A i, j \in Stages : i # j => StepPath(i) # StepPath(j))
    /\ [][(pc \notin {"none", "exited", "killed"}) =>
             \A j \in ProducedStages : files'[StepPath(j)] = files[StepPath(j)]]_vars

C20_Witness ==
    /\ pc = "check"
    /\ stage = 3
    /\ ProducedStages = {1, 2, 3}
    /\ files[StepPath(1)].step = 1
    /\ files[StepPath(2)].step = 2

IsPrefix(s, t) == Len(s) <= Len(t) /\ SubSeq(t, 1, Len(s)) = s

IsSuffix(s, t) == Len(s) <= Len(t) /\ SubSeq(t, Len(t) - Len(s) + 1, Len(t)) = s

\* C16: whatever the prompts, the artifact of a Produced stage i is
\* persisted at the path made of OUTPUT_DIR and the fixed name of stage i.
C16_PathByStageOnly ==
    \A i \in ProducedStages :
        /\ step_path[i] = StepPath(i)
        /\ dirExists => files[StepPath(i)] = step_image[i]

\* C18: whatever the prompt texts, the prompt of every generation call
\* begins with the whole system prompt as typed and ends with the whole
\* prompt of its stage as typed.
C18_PromptsUnmodified ==
    phase \in {"running", "reported"} =>
        \A n \in DOMAIN calls :
            LET p == calls[n].prompt
                s == session_state.system_prompt
                u == session_state.step_prompts[calls[n].step]
            IN /\ IsPrefix(s, p)
               /\ IsSuffix(u, p)
               /\ Len(p) >= Len(s) + Len(u)
\* The stages a log reports as Produced.
Produced(out) == {out[n].step : n \in {m \in DOMAIN out : out[m].kind = "saved"}}

\* What holds of a run that executes alone, said of session s whose
\* directory holds dir: its input image, the references of its calls and
\* the artifacts in its directory are its own, every Produced stage has its
\* image at its path, and the log follows the calls.
AsAlone(s, dir, exists) ==
    LET log == SelectSeq(s.stdout, IsOutcome)
    IN /\ s.inputImage.run = s.run
       /\ s.original_image \in {None, s.inputImage}
       /\ \A f \in FileNames :
             /\ dir[f] # None => exists
             /\ dir[f].kind = "gen" => dir[f].run = s.run
       /\ \A n \in DOMAIN s.calls :
             LET c == s.calls[n]
             IN /\ c.step = n
                /\ c.images[1] = s.inputImage
                /\ \A k \in DOMAIN c.images : c.images[k].run = s.run
                /\ n > 1 => c.images = << s.inputImage, s.step_image[n - 1] >>
       /\ \A i \in Produced(s.stdout) :
             /\ s.step_image[i].kind = "gen"
             /\ s.step_image[i].run = s.run
             /\ s.step_image[i].step = i
             /\ dir[StepPath(i)] = s.step_image[i]
       /\ Len(log) <= Len(s.calls)
       /\ \A n \in DOMAIN log : log[n].step = n

\* C14: run isolation. However the steps of two runs with different output
\* directories are interleaved, each run's log, references and artifacts
\* are those of a run executing alone, and a step of one run changes
\* nothing of the other: neither its context, script and input image nor
\* the content of its directory.
C14_RunIsolation ==
    /\ [](AsAlone(ThisSession, files, dirExists)
            /\ AsAlone(parked, ParkedFiles, ParkedDirExists))
    /\ [][parked'.run = parked.run =>
              /\ parked' = parked
              /\ ParkedFiles' = ParkedFiles
              /\ ParkedDirExists' = ParkedDirExists]_vars

C14_Witness ==
    /\ temp_dir # parked.temp_dir
    /\ pc = "awaiting" /\ stage = NumStages
    /\ parked.pc = "awaiting" /\ parked.stage = NumStages
    /\ Produced(stdout) = Produced(parked.stdout)
\* C21: at most one image is persisted per stage attempt. Of a response
\* with several image parts only the first is decoded, written to the
\* stage's path and passed on as the reference of the next stage: every
\* stored, held or referenced generated image is the first image part of
\* its response, and handling a response writes no file but the stage's own
\* and changes no other part of the context.
C21_FirstImageOnly ==
    /\ [](/\ \A f \in FileNames : files[f].kind = "gen" => files[f].n = 1
          /\ \A i \in Stages : step_image[i].kind = "gen" => step_image[i].n = 1
          /\ \A c \in DOMAIN calls : \A k \in DOMAIN calls[c].images :
                calls[c].images[k].kind = "gen" => calls[c].images[k].n = 1)
    /\ [][(pc = "parts" /\ pc' = "check") =>
              /\ {f \in FileNames : files'[f] # files[f]} \subseteq {StepPath(stage)}
              /\ \A i \in Stages \ {stage} :
                    step_image'[i] = step_image[i] /\ step_path'[i] = step_path[i]
              /\ base_image' = base_image
              /\ original_image' = original_image
              /\ step_image'[stage] # None =>
                    /\ step_image'[stage] = GenImage(run, stage, 1)
                    /\ files'[StepPath(stage)] = step_image'[stage]]_vars

\* A response with two image parts was saved and its stage is the reference
\* of the call now in flight.
C21_Witness ==
    /\ pc = "call"
    /\ stage >= 2
    /\ RespStage = stage - 1
    /\ Cardinality(ImageParts(response)) >= 2
    /\ files[StepPath(stage - 1)] = GenImage(run, stage - 1, 1)
    /\ Refs(stage)[2] = GenImage(run, stage - 1, 1)

====
